---------------------------- MODULE Spec2Model ----------------------------
(***************************************************************************)
(* smartpgdump: a schema-only pg_dump text is split into header/body       *)
(* sections (Schema::from_str), classified into seven buckets, and laid    *)
(* out as one .sql file per object under a root (Schema::write_to_fs).     *)
(*                                                                         *)
(* A Rust &str / String is a sequence of one-character strings, so that    *)
(* strip_prefix, split, trim and replace are computed on the text.         *)
(* An Option<T> is a sequence of length 0 (None) or 1 (Some).              *)
(***************************************************************************)
EXTENDS Naturals, Sequences, FiniteSets

(***************************************************************************)
(* Bounds of the explored inputs and environment.                          *)
(***************************************************************************)
\* longest dump, in sections, built from the writer-oriented blocks
MaxSections == 3

\* longest dump, in sections, built from the one-per-kind header blocks
MaxHeaderSections == 2

\* number of times the caller runs write_to_fs on the same root
MaxRuns == 2

\* most bytes a failing write leaves behind in the file
MaxPartial == 1

(***************************************************************************)
(* String literals of the program.                                         *)
(***************************************************************************)
SECTION_HEADER_BOUNDARY_PATTERN == <<"\n", "-", "-", "\n">>

COMMENT_PREFIX == <<"-", "-", " ">>

FIELD_SEP == <<";", " ">>

NAME_LABEL == <<"N", "a", "m", "e", ":", " ">>

TYPE_LABEL == <<"T", "y", "p", "e", ":", " ">>

SCHEMA_LABEL == <<"S", "c", "h", "e", "m", "a", ":", " ">>

OWNER_LABEL == <<"O", "w", "n", "e", "r", ":", " ">>

PAREN == <<"(">>

NL == <<"\n">>

DOT == <<".">>

ALTER_TABLE_ONLY == <<"A", "L", "T", "E", "R", " ", "T", "A", "B", "L", "E", " ", "O", "N", "L", "Y">>

ON_CLAUSE == <<" ", "O", "N", " ">>

TEST_MARK == <<"t", "e", "s", "t", "_">>

TABLES_DIR == <<"t", "a", "b", "l", "e", "s">>

FUNCTIONS_DIR == <<"f", "u", "n", "c", "t", "i", "o", "n", "s">>

TESTS_DIR == <<"t", "e", "s", "t", "s">>

TYPES_DIR == <<"t", "y", "p", "e", "s">>

SQL_EXT == <<".", "s", "q", "l">>

KW_TABLE == <<"T", "A", "B", "L", "E">>

KW_FK_CONSTRAINT == <<"F", "K", " ", "C", "O", "N", "S", "T", "R", "A", "I", "N", "T">>

KW_TYPE == <<"T", "Y", "P", "E">>

KW_TRIGGER == <<"T", "R", "I", "G", "G", "E", "R">>

KW_SEQUENCE == <<"S", "E", "Q", "U", "E", "N", "C", "E">>

KW_FUNCTION == <<"F", "U", "N", "C", "T", "I", "O", "N">>

KW_COMMENT == <<"C", "O", "M", "M", "E", "N", "T">>

KW_DEFAULT_ACL == <<"D", "E", "F", "A", "U", "L", "T", " ", "A", "C", "L">>

KW_INDEX == <<"I", "N", "D", "E", "X">>

KW_EXTENSION == <<"E", "X", "T", "E", "N", "S", "I", "O", "N">>

KW_SCHEMA == <<"S", "C", "H", "E", "M", "A">>

KW_DOMAIN == <<"D", "O", "M", "A", "I", "N">>

KW_DEFAULT == <<"D", "E", "F", "A", "U", "L", "T">>

KW_CONSTRAINT == <<"C", "O", "N", "S", "T", "R", "A", "I", "N", "T">>

KW_ACL == <<"A", "C", "L">>

KW_SEQUENCE_OWNED_BY == <<"S", "E", "Q", "U", "E", "N", "C", "E", " ", "O", "W", "N", "E", "D", " ", "B", "Y">>

(***************************************************************************)
(* Text of the explored dumps.                                             *)
(***************************************************************************)
Preamble == <<"-", "-", "\n", "-", "-", " ", "P", "o", "s", "t", "g", "r", "e", "S", "Q", "L", " ", "d", "a", "t", "a", "b", "a", "s", "e", " ", "d", "u", "m", "p", "\n", "-", "-", "\n", "\n">>

Trailer == <<"-", "-", "\n", "-", "-", " ", "P", "o", "s", "t", "g", "r", "e", "S", "Q", "L", " ", "d", "a", "t", "a", "b", "a", "s", "e", " ", "d", "u", "m", "p", " ", "c", "o", "m", "p", "l", "e", "t", "e", "\n", "-", "-", "\n", "\n">>

OPEN_DELIM == <<"-", "-", "\n">>

TableBody1 == <<"\n", "C", "R", "E", "A", "T", "E", " ", "T", "A", "B", "L", "E", " ", "p", ".", "o", " ", "(", ")", ";", "\n">>

TableBody2 == <<"\n", "C", "R", "E", "A", "T", "E", " ", "T", "A", "B", "L", "E", " ", "p", ".", "o", " ", "(", "a", ")", ";", "\n">>

ConstraintBody == <<"\n", "A", "L", "T", "E", "R", " ", "T", "A", "B", "L", "E", " ", "O", "N", "L", "Y", " ", "p", ".", "o", "\n", " ", "A", "D", "D", " ", "k", ";", "\n">>

QuotedConstraintBody == <<"\n", "A", "L", "T", "E", "R", " ", "T", "A", "B", "L", "E", " ", "O", "N", "L", "Y", " ", "p", ".", "\"", "o", "\"", "\n", " ", "A", "D", "D", " ", "f", ";", "\n">>

NoOnlyConstraintBody == <<"\n", "A", "L", "T", "E", "R", " ", "T", "A", "B", "L", "E", " ", "p", ".", "o", "\n", " ", "A", "D", "D", " ", "c", ";", "\n">>

IndexBody == <<"\n", "C", "R", "E", "A", "T", "E", " ", "I", "N", "D", "E", "X", " ", "i", " ", "O", "N", " ", "p", ".", "o", " ", "U", "S", "I", "N", "G", " ", "b", ";", "\n">>

IndexBody2 == <<"\n", "C", "R", "E", "A", "T", "E", " ", "I", "N", "D", "E", "X", " ", "j", " ", "O", "N", " ", "p", ".", "o", " ", "U", "S", "I", "N", "G", " ", "b", ";", "\n">>

OnOnlyIndexBody == <<"\n", "C", "R", "E", "A", "T", "E", " ", "I", "N", "D", "E", "X", " ", "i", " ", "O", "N", " ", "O", "N", "L", "Y", " ", "p", ".", "o", ";", "\n">>

STMT_END == <<";", "\n">>

KW_VIEW == <<"V", "I", "E", "W">>

BAD_OWNER_LABEL == <<"O", "w", "n", "r", ":", " ">>

N_o == <<"o">>

N_n == <<"n">>

N_na == <<"n", "(", "a", ")">>

N_nb == <<"n", "(", "b", ")">>

N_test == <<"x", "t", "e", "s", "t", "_", "n", "(", ")">>

N_pk == <<"o", "_", "p", "k">>

N_fk == <<"o", "_", "f", "k">>

N_i == <<"i">>

N_j == <<"j">>

NS_p == <<"p">>

NS_q == <<"q">>

ROLE == <<"x">>

FunctionBodyA == <<"\n", "C", "R", "E", "A", "T", "E", " ", "F", "U", "N", "C", "T", "I", "O", "N", " ", "n", "(", "a", ")", ";", "\n">>

FunctionBodyB == <<"\n", "C", "R", "E", "A", "T", "E", " ", "F", "U", "N", "C", "T", "I", "O", "N", " ", "n", "(", "b", ")", ";", "\n">>

TestFunctionBody == <<"\n", "C", "R", "E", "A", "T", "E", " ", "F", "U", "N", "C", "T", "I", "O", "N", " ", "x", "t", "e", "s", "t", "_", "n", "(", ")", ";", "\n">>

N_g == <<"g", "(", ")">>

BareDashBody == <<"\n", "C", "R", "E", "A", "T", "E", " ", "F", "U", "N", "C", "T", "I", "O", "N", " ", "g", "(", ")", "\n", "-", "-", "\n", "E", "N", "D", ";", "\n">>

OtherBody == <<"\n", "S", "E", "L", "E", "C", "T", " ", "1", ";", "\n">>

(***************************************************************************)
(* The &str methods the program calls.                                     *)
(***************************************************************************)
None == <<>>

Some(x) == <<x>>

\* char::is_whitespace, on the characters the inputs use
IsWhitespace(c) == c \in {" ", "\n", "\t", "\r"}

\* str::starts_with
StartsWith(s, p) == Len(s) >= Len(p) /\ SubSeq(s, 1, Len(p)) = p

\* str::strip_prefix: Some(rest) or None
StripPrefix(s, p) == IF StartsWith(s, p) THEN Some(SubSeq(s, Len(p) + 1, Len(s))) ELSE None

\* str::find: index of the first occurrence of p in s, 0 when there is none
Find(s, p) ==
    LET M == {k \in 1..(Len(s) + 1) : k + Len(p) - 1 <= Len(s) /\ SubSeq(s, k, k + Len(p) - 1) = p}
    IN  IF M = {} THEN 0 ELSE CHOOSE k \in M : \A j \in M : k <= j

\* str::contains
Contains(s, p) == Find(s, p) # 0

\* str::split(pattern), collected: the pieces between non-overlapping matches
RECURSIVE Split(_, _)
Split(s, sep) ==
    LET k == Find(s, sep)
    IN  IF k = 0 THEN <<s>>
        ELSE <<SubSeq(s, 1, k - 1)>> \o Split(SubSeq(s, k + Len(sep), Len(s)), sep)

\* str::split_once: Some(<<before, after>>) or None
SplitOnce(s, sep) ==
    LET k == Find(s, sep)
    IN  IF k = 0 THEN None
        ELSE Some(<<SubSeq(s, 1, k - 1), SubSeq(s, k + Len(sep), Len(s))>>)

\* str::trim_start_matches: strips every leading repetition of p
RECURSIVE TrimStartMatches(_, _)
TrimStartMatches(s, p) ==
    IF StartsWith(s, p) THEN TrimStartMatches(SubSeq(s, Len(p) + 1, Len(s)), p) ELSE s

\* str::trim_start
RECURSIVE TrimStart(_)
TrimStart(s) ==
    IF s # <<>> /\ IsWhitespace(Head(s)) THEN TrimStart(Tail(s)) ELSE s

\* str::trim_end
RECURSIVE TrimEnd(_)
TrimEnd(s) ==
    IF s # <<>> /\ IsWhitespace(s[Len(s)]) THEN TrimEnd(SubSeq(s, 1, Len(s) - 1)) ELSE s

\* str::trim
Trim(s) == TrimEnd(TrimStart(s))

\* str::replace(c, ""): every occurrence of the character removed
RemoveChar(s, c) == SelectSeq(s, LAMBDA x : x # c)

\* str::split_whitespace().next(): the first run of non-whitespace, or None
FirstWord(s) ==
    LET t == TrimStart(s)
        E == {k \in 1..Len(t) : IsWhitespace(t[k])}
        e == IF E = {} THEN Len(t) + 1 ELSE CHOOSE k \in E : \A j \in E : k <= j
    IN  IF t = <<>> THEN None ELSE Some(SubSeq(t, 1, e - 1))

(***************************************************************************)
(* ObjectType and SchemaHeader.                                            *)
(***************************************************************************)
\* ObjectType::from_str: Some(kind) or None (the Err of an unknown token)
ObjectTypeFromStr(s) ==
    CASE s = KW_TABLE -> Some("Table")
      [] s = KW_FK_CONSTRAINT -> Some("FkConstraint")
      [] s = KW_TYPE -> Some("Type")
      [] s = KW_TRIGGER -> Some("Trigger")
      [] s = KW_SEQUENCE -> Some("Sequence")
      [] s = KW_FUNCTION -> Some("Function")
      [] s = KW_COMMENT -> Some("Comment")
      [] s = KW_DEFAULT_ACL -> Some("DefaultAcl")
      [] s = KW_INDEX -> Some("Index")
      [] s = KW_EXTENSION -> Some("Extension")
      [] s = KW_SCHEMA -> Some("Schema")
      [] s = KW_DOMAIN -> Some("Domain")
      [] s = KW_DEFAULT -> Some("Default")
      [] s = KW_CONSTRAINT -> Some("Constraint")
      [] s = KW_ACL -> Some("Acl")
      [] s = KW_SEQUENCE_OWNED_BY -> Some("SequenceOwnedBy")
      [] OTHER -> None

\* the three outcomes of SchemaHeader::from_str
HeaderOk(h) == [tag |-> "Ok", header |-> Some(h)]

HeaderErr == [tag |-> "Err", header |-> None]

\* parts[k] with k past the end of the Vec: index out of bounds, the thread panics
HeaderPanic == [tag |-> "Panic", header |-> None]

\* SchemaHeader::from_str. The struct's fields are evaluated in source order,
\* each parts[k] is indexed before its prefix is looked at.
SchemaHeaderFromStr(s) ==
    LET content == StripPrefix(s, COMMENT_PREFIX)
    IN  IF content = None THEN HeaderErr
        ELSE
        LET parts == Split(content[1], FIELD_SEP)
            name  == StripPrefix(parts[1], NAME_LABEL)
        IN  IF name = None THEN HeaderErr
            ELSE IF Len(parts) < 2 THEN HeaderPanic
            ELSE
            LET ty == StripPrefix(parts[2], TYPE_LABEL)
                ot == IF ty = None THEN None ELSE ObjectTypeFromStr(ty[1])
            IN  IF ot = None THEN HeaderErr
                ELSE IF Len(parts) < 3 THEN HeaderPanic
                ELSE
                LET sch == StripPrefix(parts[3], SCHEMA_LABEL)
                IN  IF sch = None THEN HeaderErr
                    ELSE IF Len(parts) < 4 THEN HeaderPanic
                    ELSE
                    LET own == StripPrefix(parts[4], OWNER_LABEL)
                    IN  IF own = None THEN HeaderErr
                        ELSE HeaderOk([name        |-> Split(name[1], PAREN)[1],
                                       object_type |-> ot[1],
                                       schema      |-> sch[1],
                                       owner       |-> own[1]])

\* faulty variant of BucketOf: Sequence is pushed to general instead of dropped
BucketOfKeepingSequence(object_type) ==
    CASE object_type = "Table" -> "tables"
      [] object_type \in {"Type", "Domain"} -> "types"
      [] object_type \in {"FkConstraint", "Constraint"} -> "constraints"
      [] object_type = "Index" -> "indexes"
      [] object_type \in {"Extension", "Default", "Sequence"} -> "general"
      [] object_type = "Comment" -> "comments"
      [] object_type \in {"Function", "Trigger"} -> "functions"
      [] OTHER -> "none"

\* faulty variant of BucketOf: Comment sections are pushed to types, which is written
BucketOfWritingComments(object_type) ==
    CASE object_type = "Table" -> "tables"
      [] object_type \in {"Type", "Domain", "Comment"} -> "types"
      [] object_type \in {"FkConstraint", "Constraint"} -> "constraints"
      [] object_type = "Index" -> "indexes"
      [] object_type \in {"Extension", "Default"} -> "general"
      [] object_type \in {"Function", "Trigger"} -> "functions"
      [] OTHER -> "none"

\* faulty variant of BucketOf: the Domain arm is missing
BucketOfWithoutDomain(object_type) ==
    CASE object_type = "Table" -> "tables"
      [] object_type = "Type" -> "types"
      [] object_type \in {"FkConstraint", "Constraint"} -> "constraints"
      [] object_type = "Index" -> "indexes"
      [] object_type \in {"Extension", "Default"} -> "general"
      [] object_type = "Comment" -> "comments"
      [] object_type \in {"Function", "Trigger"} -> "functions"
      [] OTHER -> "none"

\* the bucket of Schema a section of this kind is pushed to; "none" for `_ => ()`
BucketOf(object_type) ==
    CASE object_type = "Table" -> "tables"
      [] object_type \in {"Type", "Domain"} -> "types"
      [] object_type \in {"FkConstraint", "Constraint"} -> "constraints"
      [] object_type = "Index" -> "indexes"
      [] object_type \in {"Extension", "Default"} -> "general"
      [] object_type = "Comment" -> "comments"
      [] object_type \in {"Function", "Trigger"} -> "functions"
      [] OTHER -> "none"

\* Schema::default()
EmptySchema ==
    [tables |-> <<>>, types |-> <<>>, functions |-> <<>>, constraints |-> <<>>,
     indexes |-> <<>>, comments |-> <<>>, general |-> <<>>]

\* schema.<bucket>.push(SchemaSection { header: sh, body })
Push(sc, bucket, sh, body) ==
    IF bucket = "none" THEN sc
    ELSE [sc EXCEPT ![bucket] = Append(@, [header |-> sh, body |-> body])]

(***************************************************************************)
(* The dump texts the program is run on: pg_dump's layout, a preamble,     *)
(* then per section a `--` line, the header line, a `--` line and the      *)
(* body, then the completion marker.                                       *)
(***************************************************************************)
\* "-- Name: <name>; Type: <kind>; Schema: <schema>; Owner: <role>"
HeaderLine(name, kind, schema) ==
    COMMENT_PREFIX \o NAME_LABEL \o name \o FIELD_SEP \o TYPE_LABEL \o kind
        \o FIELD_SEP \o SCHEMA_LABEL \o schema \o FIELD_SEP \o OWNER_LABEL \o ROLE

\* a header line cut after its Schema field
NoOwnerHeaderLine ==
    COMMENT_PREFIX \o NAME_LABEL \o N_n \o FIELD_SEP \o TYPE_LABEL \o KW_TABLE
        \o FIELD_SEP \o SCHEMA_LABEL \o NS_p

\* a header line whose fourth field has another label
BadOwnerHeaderLine == NoOwnerHeaderLine \o FIELD_SEP \o BAD_OWNER_LABEL \o ROLE

\* a header line without the leading "-- "
NoPrefixHeaderLine == SubSeq(HeaderLine(N_n, KW_TABLE, NS_p), Len(COMMENT_PREFIX) + 1,
                             Len(HeaderLine(N_n, KW_TABLE, NS_p)))

Block(h, b) == [header |-> h, body |-> b]

\* tables, constraints and indexes of table p.o, well-formed and not
WriterBlocks ==
    { Block(HeaderLine(N_o, KW_TABLE, NS_p), TableBody1),
      Block(HeaderLine(N_o, KW_TABLE, NS_p), TableBody2),
      Block(HeaderLine(N_pk, KW_CONSTRAINT, NS_p), ConstraintBody),
      Block(HeaderLine(N_fk, KW_FK_CONSTRAINT, NS_q), QuotedConstraintBody),
      Block(HeaderLine(N_pk, KW_CONSTRAINT, NS_p), NoOnlyConstraintBody),
      Block(HeaderLine(N_i, KW_INDEX, NS_p), IndexBody),
      Block(HeaderLine(N_j, KW_INDEX, NS_q), IndexBody2),
      Block(HeaderLine(N_i, KW_INDEX, NS_p), OnOnlyIndexBody) }

Keywords ==
    { KW_TABLE, KW_FK_CONSTRAINT, KW_TYPE, KW_TRIGGER, KW_SEQUENCE, KW_FUNCTION,
      KW_COMMENT, KW_DEFAULT_ACL, KW_INDEX, KW_EXTENSION, KW_SCHEMA, KW_DOMAIN,
      KW_DEFAULT, KW_CONSTRAINT, KW_ACL, KW_SEQUENCE_OWNED_BY }

\* one section of every kind, all named p.n, the body naming the kind; two
\* overloads of function n, a test function, a function whose body has a bare
\* `--` line, and four malformed headers
HeaderBlocks ==
    { Block(HeaderLine(N_n, kw, NS_p), NL \o kw \o STMT_END) : kw \in Keywords \ {KW_FUNCTION} }
    \cup
    { Block(HeaderLine(N_na, KW_FUNCTION, NS_p), FunctionBodyA),
      Block(HeaderLine(N_nb, KW_FUNCTION, NS_p), FunctionBodyB),
      Block(HeaderLine(N_test, KW_FUNCTION, NS_p), TestFunctionBody),
      Block(HeaderLine(N_g, KW_FUNCTION, NS_p), BareDashBody),
      Block(HeaderLine(N_n, KW_VIEW, NS_p), NL \o KW_VIEW \o STMT_END),
      Block(NoOwnerHeaderLine, OtherBody),
      Block(BadOwnerHeaderLine, OtherBody),
      Block(NoPrefixHeaderLine, OtherBody) }

SeqsUpTo(S, n) == UNION {[1..k -> S] : k \in 0..n}

RECURSIVE SectionsText(_)
SectionsText(blocks) ==
    IF blocks = <<>> THEN <<>>
    ELSE OPEN_DELIM \o Head(blocks).header \o SECTION_HEADER_BOUNDARY_PATTERN
            \o Head(blocks).body \o SectionsText(Tail(blocks))

\* the text of a dump: its sections between the preamble and its ending
DumpText(inp) == Preamble \o SectionsText(inp.sections) \o inp.ending

\* the ending of a dump cut off right after a header line
DanglingEnding == OPEN_DELIM \o HeaderLine(N_o, KW_TABLE, NS_p)

\* complete dumps, and dumps that stop after the header line of one more section
Inputs ==
    { [sections |-> b, ending |-> Trailer] :
          b \in SeqsUpTo(WriterBlocks, MaxSections)
                   \cup SeqsUpTo(HeaderBlocks, MaxHeaderSections) }
    \cup
    { [sections |-> b, ending |-> DanglingEnding] :
          b \in SeqsUpTo(WriterBlocks, MaxHeaderSections) }

Dumps == { DumpText(inp) : inp \in Inputs }

(***************************************************************************)
(* Layout Writer: paths, table-name recovery, the filesystem.              *)
(***************************************************************************)
\* a Result<String, &str>
Ok(v) == [ok |-> TRUE, val |-> v, err |-> ""]

Err(e) == [ok |-> FALSE, val |-> <<>>, err |-> e]

\* faulty variant of ConstraintTableName: the ALTER TABLE ONLY prefix is not required
ConstraintTableNameAnyPrefix(body) ==
    LET parts == Split(Split(TrimStartMatches(body, NL), NL)[1], DOT)
    IN  IF Len(parts) < 2 THEN Err("Couldn't parse as schema.table")
        ELSE Ok(RemoveChar(Trim(parts[2]), "\""))

\* the table a constraint body alters
ConstraintTableName(body) ==
    LET t == StripPrefix(TrimStartMatches(body, NL), ALTER_TABLE_ONLY)
    IN  IF t = None THEN Err("Constraint format unknown")
        ELSE LET parts == Split(Split(t[1], NL)[1], DOT)
             IN  IF Len(parts) < 2 THEN Err("Couldn't parse as schema.table")
                 ELSE Ok(RemoveChar(Trim(parts[2]), "\""))

\* the table an index body is created on
IndexTableName(body) ==
    LET so == SplitOnce(TrimStartMatches(body, NL), ON_CLAUSE)
    IN  IF so = None THEN Err("no on clause")
        ELSE LET w == FirstWord(so[1][2])
             IN  IF w = None THEN Err("no table name")
                 ELSE LET parts == Split(w[1], DOT)
                      IN  IF Len(parts) < 2 THEN Err("no table name after schema")
                          ELSE Ok(RemoveChar(Trim(parts[2]), "\""))

\* a path below the root is the sequence of its components
TableDir(header) == <<TABLES_DIR, header.schema>>

\* faulty variant of FunctionDir: starts_with in place of contains
FunctionDirByPrefix(header) ==
    IF StartsWith(header.name, TEST_MARK)
    THEN <<TESTS_DIR, FUNCTIONS_DIR, header.schema>>
    ELSE <<FUNCTIONS_DIR, header.schema>>

FunctionDir(header) ==
    IF Contains(header.name, TEST_MARK)
    THEN <<TESTS_DIR, FUNCTIONS_DIR, header.schema>>
    ELSE <<FUNCTIONS_DIR, header.schema>>

TypeDir(header) == <<TYPES_DIR, header.schema>>

\* section_path.join(format!("{}.sql", name))
SqlFile(dir, name) == Append(dir, name \o SQL_EXT)

\* fs::create_dir_all: the directory and every missing ancestor
CreateDirAll(d, dir) == d \cup {SubSeq(dir, 1, k) : k \in 1..Len(dir)}

\* faulty variant of FsWrite: a file that exists is left as it is
FsWriteIfAbsent(f, fp, data) ==
    [p \in DOMAIN f \cup {fp} |-> IF p = fp /\ fp \notin DOMAIN f THEN data ELSE f[p]]

\* faulty variant of FsWrite: an existing file is kept and written after its end
FsWriteKeeping(f, fp, data) ==
    [p \in DOMAIN f \cup {fp} |->
        IF p = fp THEN (IF fp \in DOMAIN f THEN f[fp] ELSE <<>>) \o data ELSE f[p]]

\* fs::write: create or truncate, then write
FsWrite(f, fp, data) == [p \in DOMAIN f \cup {fp} |-> IF p = fp THEN data ELSE f[p]]

\* faulty variant of FsAppend: the file is truncated when it is opened
FsAppendTruncating(f, fp, data) ==
    [p \in DOMAIN f \cup {fp} |-> IF p = fp THEN data ELSE f[p]]

\* OpenOptions::new().append(true).create(true), then writeln!
FsAppend(f, fp, data) ==
    [p \in DOMAIN f \cup {fp} |->
        IF p = fp THEN (IF fp \in DOMAIN f THEN f[fp] ELSE <<>>) \o data ELSE f[p]]

\* where an iteration's filesystem calls may fail
Faults == {"none", "create_dir_all", "open", "write"}

\* faulty variant of NextLoop: the indexes loop runs before the constraints loop
NextLoopIndexesFirst(l) ==
    CASE l = "tables" -> "functions"
      [] l = "functions" -> "types"
      [] l = "types" -> "indexes"
      [] l = "indexes" -> "constraints"
      [] l = "constraints" -> "returned"

\* the order of the five loops of write_to_fs
NextLoop(l) ==
    CASE l = "tables" -> "functions"
      [] l = "functions" -> "types"
      [] l = "types" -> "constraints"
      [] l = "constraints" -> "indexes"
      [] l = "indexes" -> "returned"

Loops == {"tables", "functions", "types", "constraints", "indexes"}

(***************************************************************************)
(* State.                                                                  *)
(***************************************************************************)
VARIABLES
    pc,         \* "from_str", one of Loops, "returned" or "panicked"
    rest,       \* the Split iterator of from_str: Some(text not yet split) or None
    sec,        \* the fragment of the current iteration of from_str
    sh_holder,  \* Option<SchemaHeader>
    schema,     \* the Schema under construction, then written
    pairs,      \* history: the (header, body) pairs completed so far, in order
    i,          \* position in the bucket the current loop of write_to_fs walks
    dirs,       \* directories below the root
    files,      \* path -> content of the files below the root
    ops,        \* history: the filesystem calls that took effect, in order
    result,     \* of the current run of write_to_fs: "running", "Ok" or the error
    run,        \* number of the current run of write_to_fs on this root
    snapshots,  \* history: `files` at each Ok return of write_to_fs
    input       \* history: the sections and ending the dump text was made of

vars == <<pc, rest, sec, sh_holder, schema, pairs, i, dirs, files, ops, result, run, snapshots,
          input>>

parserVars == <<rest, sec, sh_holder, schema, pairs, input>>

Init ==
    /\ pc = "from_str"
    /\ input \in Inputs
    /\ rest = Some(DumpText(input))
    /\ sec = <<>>
    /\ sh_holder = None
    /\ schema = EmptySchema
    /\ pairs = <<>>
    /\ i = 1
    /\ dirs = {}
    /\ files = <<>>
    /\ ops = <<>>
    /\ result = "running"
    /\ run = 1
    /\ snapshots = <<>>

(***************************************************************************)
(* Schema::from_str, one action per iteration of its loop.                 *)
(***************************************************************************)
\* Split::next on the remaining text: <<fragment, iterator afterwards>>
SplitNext(text) ==
    LET k == Find(text, SECTION_HEADER_BOUNDARY_PATTERN)
    IN  IF k = 0 THEN <<text, None>>
        ELSE <<SubSeq(text, 1, k - 1),
               Some(SubSeq(text, k + Len(SECTION_HEADER_BOUNDARY_PATTERN), Len(text)))>>

\* sh_holder.is_none(): the fragment is tried as a header
AwaitHeader ==
    /\ pc = "from_str" /\ rest # None /\ sh_holder = None
    /\ LET nx == SplitNext(rest[1])
           r  == SchemaHeaderFromStr(nx[1])
       IN  /\ sec' = nx[1]
           /\ rest' = nx[2]
           /\ sh_holder' = r.header
           /\ pc' = IF r.tag = "Panic" THEN "panicked" ELSE pc
    /\ UNCHANGED <<schema, pairs, i, dirs, files, ops, result, run, snapshots, input>>

\* faulty variant of AwaitBody: a held header of a kind without bucket is let go
\* without taking a fragment as its body
AwaitBodyOnlyForBucketed ==
    /\ pc = "from_str" /\ rest # None /\ sh_holder # None
    /\ LET nx == SplitNext(rest[1])
           sh == sh_holder[1]
       IN  IF BucketOf(sh.object_type) = "none"
           THEN UNCHANGED <<sec, rest, schema, pairs>>
           ELSE /\ sec' = nx[1]
                /\ rest' = nx[2]
                /\ schema' = Push(schema, BucketOf(sh.object_type), sh, nx[1])
                /\ pairs' = Append(pairs, [header |-> sh, body |-> nx[1]])
    /\ sh_holder' = None
    /\ UNCHANGED <<pc, i, dirs, files, ops, result, run, snapshots, input>>

\* a header is held: the fragment is its body
AwaitBody ==
    /\ pc = "from_str" /\ rest # None /\ sh_holder # None
    /\ LET nx == SplitNext(rest[1])
           sh == sh_holder[1]
       IN  /\ sec' = nx[1]
           /\ rest' = nx[2]
           /\ schema' = Push(schema, BucketOf(sh.object_type), sh, nx[1])
           /\ pairs' = Append(pairs, [header |-> sh, body |-> nx[1]])
    /\ sh_holder' = None
    /\ UNCHANGED <<pc, i, dirs, files, ops, result, run, snapshots, input>>

\* faulty variant of FromStrReturn: a header still held is pushed with an empty body
FromStrReturnFlushing ==
    /\ pc = "from_str" /\ rest = None
    /\ pc' = "tables"
    /\ i' = 1
    /\ IF sh_holder = None THEN UNCHANGED <<schema, pairs>>
       ELSE /\ schema' = Push(schema, BucketOf(sh_holder[1].object_type), sh_holder[1], <<>>)
            /\ pairs' = Append(pairs, [header |-> sh_holder[1], body |-> <<>>])
    /\ UNCHANGED <<rest, sec, sh_holder, input, dirs, files, ops, result, run, snapshots>>

\* the iterator is exhausted: Ok(schema), and main calls write_to_fs
FromStrReturn ==
    /\ pc = "from_str" /\ rest = None
    /\ pc' = "tables"
    /\ i' = 1
    /\ UNCHANGED <<parserVars, dirs, files, ops, result, run, snapshots>>

(***************************************************************************)
(* Schema::write_to_fs, one action per iteration of each of its loops.     *)
(***************************************************************************)
Call(op, path, data) ==
    [op |-> op, path |-> path, data |-> data, bucket |-> pc, idx |-> i, run |-> run]

\* faulty variant of Fail: the error is noted and the loop goes on to its next item
FailAndContinue(e) ==
    /\ pc' = pc
    /\ result' = e
    /\ i' = i + 1
    /\ UNCHANGED <<run, snapshots>>

Fail(e) ==
    /\ pc' = "returned"
    /\ result' = e
    /\ UNCHANGED <<i, run, snapshots>>

\* create_dir_all(dir), then `kind` ("write" or "append") of data to dir/name.sql;
\* fault names the call that fails, n the bytes a failing write got out
Store(kind, dir, name, data, fault, n) ==
    LET fp == SqlFile(dir, name)
        put(bytes) == IF kind = "write" THEN FsWrite(files, fp, bytes)
                      ELSE FsAppend(files, fp, bytes)
    IN  CASE fault = "create_dir_all" ->
               /\ Fail("io error")
               /\ UNCHANGED <<dirs, files, ops>>
          [] fault = "open" ->
               /\ Fail("io error")
               /\ dirs' = CreateDirAll(dirs, dir)
               /\ ops' = Append(ops, Call("create_dir_all", dir, <<>>))
               /\ UNCHANGED files
          [] fault = "write" ->
               /\ Fail("io error")
               /\ dirs' = CreateDirAll(dirs, dir)
               /\ files' = put(SubSeq(data, 1, n))
               /\ ops' = ops \o <<Call("create_dir_all", dir, <<>>),
                                  Call(kind, fp, SubSeq(data, 1, n))>>
          [] fault = "none" ->
               /\ dirs' = CreateDirAll(dirs, dir)
               /\ files' = put(data)
               /\ ops' = ops \o <<Call("create_dir_all", dir, <<>>), Call(kind, fp, data)>>
               /\ i' = i + 1
               /\ UNCHANGED <<pc, result, run, snapshots>>

\* the failures the environment may inject into one iteration
Injected(fault, n, data) ==
    /\ fault \in Faults
    /\ n \in 0..MaxPartial
    /\ IF fault = "write" THEN n < Len(data) \/ n = 0 ELSE n = 0

WriteTable ==
    /\ pc = "tables" /\ i <= Len(schema.tables)
    /\ LET table == schema.tables[i]
       IN  \E fault \in Faults, n \in 0..MaxPartial :
             /\ Injected(fault, n, table.body)
             /\ Store("write", TableDir(table.header), table.header.name, table.body, fault, n)
    /\ UNCHANGED parserVars

WriteFunction ==
    /\ pc = "functions" /\ i <= Len(schema.functions)
    /\ LET function == schema.functions[i]
       IN  \E fault \in Faults, n \in 0..MaxPartial :
             /\ Injected(fault, n, function.body)
             /\ Store("write", FunctionDir(function.header), function.header.name,
                      function.body, fault, n)
    /\ UNCHANGED parserVars

WriteType ==
    /\ pc = "types" /\ i <= Len(schema.types)
    /\ LET sql_type == schema.types[i]
       IN  \E fault \in Faults, n \in 0..MaxPartial :
             /\ Injected(fault, n, sql_type.body)
             /\ Store("write", TypeDir(sql_type.header), sql_type.header.name,
                      sql_type.body, fault, n)
    /\ UNCHANGED parserVars

AppendConstraint ==
    /\ pc = "constraints" /\ i <= Len(schema.constraints)
    /\ LET constraint == schema.constraints[i]
           table_name == ConstraintTableName(constraint.body)
       IN  IF table_name.ok
           THEN \E fault \in Faults, n \in 0..MaxPartial :
                  /\ Injected(fault, n, constraint.body \o NL)
                  /\ Store("append", TableDir(constraint.header), table_name.val,
                           constraint.body \o NL, fault, n)
           ELSE /\ Fail(table_name.err)
                /\ UNCHANGED <<dirs, files, ops>>
    /\ UNCHANGED parserVars

AppendIndex ==
    /\ pc = "indexes" /\ i <= Len(schema.indexes)
    /\ LET index == schema.indexes[i]
           table_name == IndexTableName(index.body)
       IN  IF table_name.ok
           THEN \E fault \in Faults, n \in 0..MaxPartial :
                  /\ Injected(fault, n, index.body \o NL)
                  /\ Store("append", TableDir(index.header), table_name.val,
                           index.body \o NL, fault, n)
           ELSE /\ Fail(table_name.err)
                /\ UNCHANGED <<dirs, files, ops>>
    /\ UNCHANGED parserVars

\* a loop is over: the next one starts, or write_to_fs returns Ok(())
EndLoop ==
    /\ pc \in Loops /\ i > Len(schema[pc])
    /\ pc' = NextLoop(pc)
    /\ i' = 1
    /\ result' = IF pc = "indexes" THEN "Ok" ELSE result
    /\ snapshots' = IF pc = "indexes" THEN Append(snapshots, files) ELSE snapshots
    /\ UNCHANGED <<parserVars, dirs, files, ops, run>>

\* the caller runs write_to_fs again, same Schema, same root, nothing cleared
RunAgain ==
    /\ pc = "returned" /\ result = "Ok" /\ run < MaxRuns
    /\ pc' = "tables"
    /\ i' = 1
    /\ result' = "running"
    /\ run' = run + 1
    /\ UNCHANGED <<parserVars, dirs, files, ops, snapshots>>

Next ==
    \/ AwaitHeader
    \/ AwaitBody
    \/ FromStrReturn
    \/ WriteTable
    \/ WriteFunction
    \/ WriteType
    \/ AppendConstraint
    \/ AppendIndex
    \/ EndLoop
    \/ RunAgain

Spec == Init /\ [][Next]_vars

(***************************************************************************)
(* Vocabulary of the properties.                                           *)
(***************************************************************************)
\* write_to_fs has returned Ok(()) from its first run, on a root that was empty
SucceededOnce == pc = "returned" /\ result = "Ok" /\ run = 1

\* write_to_fs has returned Ok(()) twice on the same root, nothing cleared between
SucceededTwice == pc = "returned" /\ result = "Ok" /\ run = 2

RECURSIVE Concat(_)
Concat(ss) == IF ss = <<>> THEN <<>> ELSE Head(ss) \o Concat(Tail(ss))

EndsWith(s, p) == Len(s) >= Len(p) /\ SubSeq(s, Len(s) - Len(p) + 1, Len(s)) = p

\* the file a section of the constraints or indexes bucket is resolved to by the
\* writer, None when its table name cannot be recovered
ResolvedFile(bucket, section) ==
    LET r == IF bucket = "constraints" THEN ConstraintTableName(section.body)
             ELSE IndexTableName(section.body)
    IN  IF r.ok THEN Some(SqlFile(TableDir(section.header), r.val)) ELSE None

\* the bodies of the bucket resolved to fp, each followed by a newline, in dump order
Appended(bucket, fp) ==
    LET hits == SelectSeq(schema[bucket], LAMBDA s : ResolvedFile(bucket, s) = Some(fp))
    IN  Concat([k \in 1..Len(hits) |-> hits[k].body \o NL])

\* the file of a section of the tables bucket
TableFile(section) == <<TABLES_DIR, section.header.schema, section.header.name \o SQL_EXT>>

(***************************************************************************)
(* C1. After write_to_fs succeeds on an initially empty root, the file of  *)
(* every table section holds exactly the table body, then the constraint   *)
(* bodies resolved to it, then the index bodies resolved to it, each       *)
(* followed by one newline, in dump order.                                 *)
(* Fails: two table sections with the same namespace and name share one    *)
(* file, and the later fs::write replaces the earlier body.                *)
(***************************************************************************)
C1_TableFileIsBodyThenAppends ==
    SucceededOnce =>
        \A k \in 1..Len(schema.tables) :
            LET fp == TableFile(schema.tables[k])
            IN  /\ fp \in DOMAIN files
                /\ files[fp] = schema.tables[k].body \o Appended("constraints", fp)
                                   \o Appended("indexes", fp)

(***************************************************************************)
(* C2. A header fragment with the Name, Type and Schema fields and no      *)
(* Owner field is dropped: from_str goes on (it does not abort) and holds  *)
(* no header after it.                                                     *)
(* Fails: parts[3] is indexed past the end of a three-element Vec.         *)
(***************************************************************************)
LacksOwner(fragment) ==
    LET content == StripPrefix(fragment, COMMENT_PREFIX)
    IN  /\ content # None
        /\ LET parts == Split(content[1], FIELD_SEP)
           IN  /\ Len(parts) >= 3
               /\ StartsWith(parts[1], NAME_LABEL)
               /\ StartsWith(parts[2], TYPE_LABEL)
               /\ StartsWith(parts[3], SCHEMA_LABEL)
               /\ \A k \in 1..Len(parts) : ~StartsWith(parts[k], OWNER_LABEL)

C2_HeaderWithoutOwnerIsDropped ==
    LacksOwner(sec) => pc # "panicked" /\ sh_holder = None

(***************************************************************************)
(* C3. A constraint body that does not start, after its leading newlines,  *)
(* with ALTER TABLE ONLY makes write_to_fs return an error with no         *)
(* filesystem call for that section, for the constraints after it or for   *)
(* any index.                                                              *)
(***************************************************************************)
HasAlterTableOnly(body) == StartsWith(TrimStartMatches(body, NL), ALTER_TABLE_ONLY)

C3_MalformedConstraintAborts ==
    \A k \in 1..Len(schema.constraints) :
        ~HasAlterTableOnly(schema.constraints[k].body) =>
            /\ \A j \in 1..Len(ops) :
                   /\ ~(ops[j].bucket = "constraints" /\ ops[j].idx >= k)
                   /\ ops[j].bucket # "indexes"
            /\ pc # "indexes"
            /\ pc = "constraints" => i <= k
            /\ pc = "returned" => result # "Ok"

\* the run stopped at a malformed constraint that has sections after it in write order
C3_Witness ==
    /\ pc = "returned" /\ result = "Constraint format unknown"
    /\ ops # <<>>
    /\ Len(schema.indexes) > 0
    /\ i <= Len(schema.constraints)
    /\ ~HasAlterTableOnly(schema.constraints[i].body)

(***************************************************************************)
(* C4. Two runs of write_to_fs with the same Schema into the same root,    *)
(* nothing cleared between them, leave every constraint body and every     *)
(* index body appended twice in its target file.                           *)
(* As stated this fails: the second run's fs::write of a table section     *)
(* truncates the file the first run appended to.                           *)
(***************************************************************************)
\* the files constraints and indexes are appended to
AppendTargets ==
    {ResolvedFile("constraints", schema.constraints[k])[1] : k \in 1..Len(schema.constraints)}
        \cup {ResolvedFile("indexes", schema.indexes[k])[1] : k \in 1..Len(schema.indexes)}

\* what one run appends to fp
AppendedByOneRun(fp) == Appended("constraints", fp) \o Appended("indexes", fp)

\* the positions of the table sections written to fp
TablesOf(fp) == {k \in 1..Len(schema.tables) : TableFile(schema.tables[k]) = fp}

\* the original statement: after two runs every target ends with its appends, twice
C4_AppendsDouble ==
    SucceededTwice =>
        \A fp \in AppendTargets :
            EndsWith(files[fp], AppendedByOneRun(fp) \o AppendedByOneRun(fp))

\* amended: the appends double in the targets no table section is written to; a
\* target that is a table section's file holds the body of the last such section
\* followed by the appends of one run
C4_AppendsDoubleUnlessTableRewritten ==
    SucceededTwice =>
        \A fp \in AppendTargets :
            IF TablesOf(fp) = {}
            THEN files[fp] = AppendedByOneRun(fp) \o AppendedByOneRun(fp)
            ELSE LET last == CHOOSE k \in TablesOf(fp) : \A j \in TablesOf(fp) : j <= k
                 IN  files[fp] = schema.tables[last].body \o AppendedByOneRun(fp)

\* two runs done, with one target that has a table section and one that has none
C4_Witness ==
    /\ SucceededTwice
    /\ \E fp \in AppendTargets : TablesOf(fp) = {}
    /\ \E fp \in AppendTargets : TablesOf(fp) # {}

(***************************************************************************)
(* C5. For a Schema holding only table sections, two runs of write_to_fs   *)
(* into the same root leave exactly the files one run leaves, same paths,  *)
(* same contents.                                                          *)
(***************************************************************************)
OnlyTables ==
    \A b \in {"types", "functions", "constraints", "indexes", "comments", "general"} :
        schema[b] = <<>>

C5_TableOnlyRerunIsIdempotent ==
    (SucceededTwice /\ OnlyTables) =>
        /\ DOMAIN files = DOMAIN snapshots[1]
        /\ \A fp \in DOMAIN files : files[fp] = snapshots[1][fp]

\* a table-only Schema written twice, the second run overwriting a file of the first
C5_Witness ==
    /\ SucceededTwice /\ OnlyTables
    /\ Len(schema.tables) >= 2
    /\ \E j \in 1..Len(ops) : ops[j].run = 2 /\ ops[j].op = "write"
                                 /\ ops[j].path \in DOMAIN snapshots[1]

(***************************************************************************)
(* C6. One file per table, type and function section: after a successful   *)
(* run into an empty root, any two different sections of the tables,       *)
(* types and functions buckets are stored in two different files.          *)
(* Fails: the file name drops the signature and the path leaves out the    *)
(* kind, so overloads of one function share a file, as do a type and a     *)
(* domain, or a function and a trigger, of one name and namespace; the     *)
(* later fs::write replaces the earlier section.                           *)
(***************************************************************************)
\* the section a filesystem call was made for
SectionOf(call) == schema[call.bucket][call.idx]

C6_OneFilePerSection ==
    SucceededOnce =>
        \A a, b \in 1..Len(ops) :
            (/\ ops[a].op = "write" /\ ops[b].op = "write"
             /\ SectionOf(ops[a]) # SectionOf(ops[b]))
            => ops[a].path # ops[b].path

(***************************************************************************)
(* C7. A constraint whose body is ALTER TABLE ONLY <ns>.<table>, newline,  *)
(* rest, is appended to tables/<ns>/<table>.sql, <ns> and <table> read     *)
(* from the body whatever namespace the header declares.                   *)
(* Fails: the directory is the header's namespace, not the body's.         *)
(***************************************************************************)
\* the first line of the statement, after the ALTER TABLE ONLY prefix
AlteredTable(body) ==
    Trim(Split(StripPrefix(TrimStartMatches(body, NL), ALTER_TABLE_ONLY)[1], NL)[1])

\* the body is ALTER TABLE ONLY <ns>.<table>, a newline, and more
IsAlterTableOnlyNsTable(body) ==
    /\ HasAlterTableOnly(body)
    /\ Len(Split(StripPrefix(TrimStartMatches(body, NL), ALTER_TABLE_ONLY)[1], NL)) >= 2
    /\ Len(Split(AlteredTable(body), DOT)) = 2

\* tables/<ns>/<table>.sql for a qualified name <ns>.<table>
FileOfQualifiedName(qn) ==
    <<TABLES_DIR, Split(qn, DOT)[1], RemoveChar(Split(qn, DOT)[2], "\"") \o SQL_EXT>>

C7_ConstraintTargetFromBody ==
    \A j \in 1..Len(ops) :
        (/\ ops[j].op = "append" /\ ops[j].bucket = "constraints"
         /\ IsAlterTableOnlyNsTable(schema.constraints[ops[j].idx].body))
        => ops[j].path = FileOfQualifiedName(AlteredTable(schema.constraints[ops[j].idx].body))

(***************************************************************************)
(* C8. An index whose body has ` ON <ns>.<table>` followed by whitespace   *)
(* is appended to tables/<ns>/<table>.sql, <ns>.<table> being the first    *)
(* word after the first ` ON `; a body without ` ON `, or whose word after *)
(* it has no `.`, makes write_to_fs return an error.                       *)
(* Fails: the directory is the header's namespace, not the body's.         *)
(***************************************************************************)
\* Some(first word after the first " ON ") or None
WordAfterOn(body) ==
    LET so == SplitOnce(TrimStartMatches(body, NL), ON_CLAUSE)
    IN  IF so = None THEN None ELSE FirstWord(so[1][2])

HasOnNsTable(body) == WordAfterOn(body) # None /\ Len(Split(WordAfterOn(body)[1], DOT)) >= 2

C8_IndexTargetFromBody ==
    /\ \A j \in 1..Len(ops) :
           (ops[j].op = "append" /\ ops[j].bucket = "indexes")
           => /\ HasOnNsTable(schema.indexes[ops[j].idx].body)
              /\ ops[j].path = FileOfQualifiedName(WordAfterOn(schema.indexes[ops[j].idx].body)[1])
    /\ \A k \in 1..Len(schema.indexes) :
           ~HasOnNsTable(schema.indexes[k].body)
           => /\ pc = "returned" => result # "Ok"
              /\ pc = "indexes" => i <= k

(***************************************************************************)
(* C9. Every section of the functions bucket is written to exactly one     *)
(* file, tests/functions/<namespace>/<name>.sql when its name contains     *)
(* `test_` anywhere and functions/<namespace>/<name>.sql otherwise.        *)
(***************************************************************************)
HasTestMark(name) ==
    \E k \in 1..Len(name) :
        k + Len(TEST_MARK) - 1 <= Len(name) /\ SubSeq(name, k, k + Len(TEST_MARK) - 1) = TEST_MARK

FunctionFile(header) ==
    IF HasTestMark(header.name)
    THEN <<TESTS_DIR, FUNCTIONS_DIR, header.schema, header.name \o SQL_EXT>>
    ELSE <<FUNCTIONS_DIR, header.schema, header.name \o SQL_EXT>>

\* the writes of the current run for the k-th section of the functions bucket
FunctionWrites(k) ==
    {j \in 1..Len(ops) : /\ ops[j].bucket = "functions" /\ ops[j].idx = k
                         /\ ops[j].run = run /\ ops[j].op # "create_dir_all"}

C9_FunctionRoutedByTestMark ==
    /\ \A j \in 1..Len(ops) :
           (ops[j].bucket = "functions" /\ ops[j].op # "create_dir_all")
           => /\ ops[j].op = "write"
              /\ ops[j].path = FunctionFile(schema.functions[ops[j].idx].header)
    /\ (pc = "returned" /\ result = "Ok")
           => \A k \in 1..Len(schema.functions) : Cardinality(FunctionWrites(k)) = 1

\* a successful run that wrote a function with `test_` inside its name and one without
C9_Witness ==
    /\ pc = "returned" /\ result = "Ok"
    /\ \E a, b \in 1..Len(schema.functions) :
           /\ HasTestMark(schema.functions[a].header.name)
           /\ ~StartsWith(schema.functions[a].header.name, TEST_MARK)
           /\ ~HasTestMark(schema.functions[b].header.name)
           /\ FunctionFile(schema.functions[a].header) \in DOMAIN files
           /\ FunctionFile(schema.functions[b].header) \in DOMAIN files

(***************************************************************************)
(* C10. Every completed (header, body) pair is in the one bucket of its    *)
(* kind and in no other, pairs of the five other kinds are in no bucket,   *)
(* and every bucket keeps dump order: each bucket is the subsequence of    *)
(* the completed pairs that have its kinds.                                *)
(***************************************************************************)
PairsOfKinds(kinds) == SelectSeq(pairs, LAMBDA p : p.header.object_type \in kinds)

C10_BucketsByKindInDumpOrder ==
    /\ schema.tables = PairsOfKinds({"Table"})
    /\ schema.types = PairsOfKinds({"Type", "Domain"})
    /\ schema.constraints = PairsOfKinds({"FkConstraint", "Constraint"})
    /\ schema.indexes = PairsOfKinds({"Index"})
    /\ schema.general = PairsOfKinds({"Extension", "Default"})
    /\ schema.comments = PairsOfKinds({"Comment"})
    /\ schema.functions = PairsOfKinds({"Function", "Trigger"})

\* parsing is over; a domain then a type share the types bucket in that order
C10_Witness ==
    /\ pc = "tables"
    /\ Len(pairs) = 2
    /\ pairs[1].header.object_type = "Domain"
    /\ pairs[2].header.object_type = "Type"
    /\ Len(schema.types) = 2

(***************************************************************************)
(* C11. At every point of parsing and at the end, the sizes of the seven   *)
(* buckets sum to the number of completed pairs whose kind is in the       *)
(* kind-to-bucket mapping, which is at most the number N of header/body    *)
(* pairs; once parsing is over the sum is below N as soon as one pair has  *)
(* another kind.                                                           *)
(***************************************************************************)
MappedKinds ==
    {"Table", "Type", "Domain", "FkConstraint", "Constraint", "Index", "Extension",
     "Default", "Comment", "Function", "Trigger"}

BucketSizes ==
    Len(schema.tables) + Len(schema.types) + Len(schema.functions)
        + Len(schema.constraints) + Len(schema.indexes) + Len(schema.comments)
        + Len(schema.general)

C11_BucketSizesCountMappedPairs ==
    /\ BucketSizes = Len(PairsOfKinds(MappedKinds))
    /\ BucketSizes <= Len(pairs)
    /\ Len(pairs) <= Len(input.sections)
    /\ (/\ pc # "from_str"
        /\ \E k \in 1..Len(pairs) : pairs[k].header.object_type \notin MappedKinds)
       => BucketSizes < Len(pairs)

\* parsing is over: two pairs, one of a kind that has no bucket
C11_Witness ==
    /\ pc = "tables"
    /\ Len(pairs) = 2
    /\ BucketSizes = 1
    /\ \E k \in 1..2 : pairs[k].header.object_type = "Sequence"

(***************************************************************************)
(* C12. Within one run of write_to_fs the filesystem calls come bucket by  *)
(* bucket, in the order tables, functions, types, constraints, indexes,    *)
(* with no call of an earlier bucket after a call of a later one; inside a *)
(* bucket they come in dump order: the call at position idx carries the    *)
(* body of the idx-th pair of the bucket's kinds.                          *)
(***************************************************************************)
Rank(bucket) ==
    CASE bucket = "tables" -> 1
      [] bucket = "functions" -> 2
      [] bucket = "types" -> 3
      [] bucket = "constraints" -> 4
      [] bucket = "indexes" -> 5

BucketKinds(bucket) ==
    CASE bucket = "tables" -> {"Table"}
      [] bucket = "functions" -> {"Function", "Trigger"}
      [] bucket = "types" -> {"Type", "Domain"}
      [] bucket = "constraints" -> {"FkConstraint", "Constraint"}
      [] bucket = "indexes" -> {"Index"}

IsPrefix(p, s) == Len(p) <= Len(s) /\ SubSeq(s, 1, Len(p)) = p

Failed == result \notin {"running", "Ok"}

ShapeErrors ==
    {"Constraint format unknown", "Couldn't parse as schema.table", "no on clause",
     "no table name", "no table name after schema"}

\* the effect of the recorded calls, one after the other, on an empty root
RECURSIVE ReplayFiles(_)
ReplayFiles(calls) ==
    IF calls = <<>> THEN <<>>
    ELSE LET before == ReplayFiles(SubSeq(calls, 1, Len(calls) - 1))
             call   == calls[Len(calls)]
             old    == IF call.path \in DOMAIN before THEN before[call.path] ELSE <<>>
         IN  CASE call.op = "create_dir_all" -> before
               [] call.op = "write" ->
                    [p \in DOMAIN before \cup {call.path} |->
                        IF p = call.path THEN call.data ELSE before[p]]
               [] call.op = "append" ->
                    [p \in DOMAIN before \cup {call.path} |->
                        IF p = call.path THEN old \o call.data ELSE before[p]]

ReplayDirs(calls) ==
    UNION { {SubSeq(calls[k].path, 1, n) : n \in 1..Len(calls[k].path)} :
              k \in {m \in 1..Len(calls) : calls[m].op = "create_dir_all"} }

\* position i of the bucket is its first section whose table name is not recovered
FirstUnresolved(bucket) ==
    /\ i <= Len(schema[bucket])
    /\ ResolvedFile(bucket, schema[bucket][i]) = None
    /\ \A m \in 1..(i - 1) : ResolvedFile(bucket, schema[bucket][m]) # None

C13_FirstErrorStopsAndKeepsWhatWasWritten ==
    /\ files = ReplayFiles(ops)
    /\ dirs = ReplayDirs(ops)
    /\ Failed =>
         /\ pc = "returned"
         /\ ~ENABLED Next
         /\ result \in ShapeErrors \cup {"io error"}
         /\ result \in ShapeErrors =>
              \/ FirstUnresolved("constraints")
              \/ /\ \A m \in 1..Len(schema.constraints) :
                      ResolvedFile("constraints", schema.constraints[m]) # None
                 /\ FirstUnresolved("indexes")

\* a filesystem call failed after an earlier section had been written in full
C13_Witness ==
    /\ Failed
    /\ result = "io error"
    /\ Len(ops) >= 3
    /\ files # <<>>

(***************************************************************************)
(* C14. In awaiting-header, a fragment that is not a Section Header (no    *)
(* `-- ` prefix, a field missing or with another label, a kind token that  *)
(* is not known) is discarded: the parser raises no error, holds no header *)
(* afterwards, so that the next fragment is tried as a header, and no      *)
(* bucket changes.                                                         *)
(* Fails: a fragment with fewer than four fields whose present fields are  *)
(* well labelled makes SchemaHeader::from_str index past the end of parts. *)
(***************************************************************************)
KnownKindTokens ==
    { KW_TABLE, KW_FK_CONSTRAINT, KW_TYPE, KW_TRIGGER, KW_SEQUENCE, KW_FUNCTION,
      KW_COMMENT, KW_DEFAULT_ACL, KW_INDEX, KW_EXTENSION, KW_SCHEMA, KW_DOMAIN,
      KW_DEFAULT, KW_CONSTRAINT, KW_ACL, KW_SEQUENCE_OWNED_BY }

\* the fragment has the `-- ` prefix and the four labelled fields in order, with
\* a known kind token
IsSectionHeader(fragment) ==
    LET content == StripPrefix(fragment, COMMENT_PREFIX)
    IN  /\ content # None
        /\ LET parts == Split(content[1], FIELD_SEP)
           IN  /\ Len(parts) >= 4
               /\ StartsWith(parts[1], NAME_LABEL)
               /\ StartsWith(parts[2], TYPE_LABEL)
               /\ SubSeq(parts[2], Len(TYPE_LABEL) + 1, Len(parts[2])) \in KnownKindTokens
               /\ StartsWith(parts[3], SCHEMA_LABEL)
               /\ StartsWith(parts[4], OWNER_LABEL)

\* the parser is about to try the next fragment as a header
AwaitingHeader == pc = "from_str" /\ rest # None /\ sh_holder = None

C14_FailedHeaderIsDiscardedSilently ==
    [][ (AwaitingHeader /\ ~IsSectionHeader(SplitNext(rest[1])[1]))
            => /\ pc' = "from_str"
               /\ sh_holder' = None
               /\ schema' = schema
               /\ pairs' = pairs ]_vars

(***************************************************************************)
(* C15. A well-formed header of a kind that has no bucket still takes the  *)
(* next fragment as its body: in a dump whose headers are all well-formed, *)
(* the completed pairs are the sections of the dump one for one, whatever  *)
(* their kinds, and every bucket holds what the sections of its own kinds  *)
(* give, as if the sections of the other kinds were not in the dump.       *)
(***************************************************************************)
\* from_str has just returned Ok(schema): write_to_fs has made no call yet
ParseDone == pc = "tables" /\ run = 1 /\ i = 1 /\ ops = <<>>

AllHeadersWellFormed == \A k \in 1..Len(input.sections) : IsSectionHeader(input.sections[k].header)

\* the header a section of the dump carries
BlockHeader(block) == SchemaHeaderFromStr(block.header).header[1]

AllBucketKinds(bucket) ==
    CASE bucket = "comments" -> {"Comment"}
      [] bucket = "general" -> {"Extension", "Default"}
      [] OTHER -> BucketKinds(bucket)

\* what the sections of the bucket's kinds, taken alone, put in the bucket
SectionsOfBucket(bucket) ==
    LET own == {k \in 1..Len(input.sections) :
                   BlockHeader(input.sections[k]).object_type \in AllBucketKinds(bucket)}
    IN  SelectSeq([k \in 1..Len(input.sections) |->
                      IF k \in own THEN <<pairs[k]>> ELSE <<>>], LAMBDA x : x # <<>>)

C15_UnbucketedHeaderTakesItsBody ==
    (ParseDone /\ AllHeadersWellFormed) =>
        /\ Len(pairs) = Len(input.sections)
        /\ \A k \in 1..Len(pairs) :
             /\ pairs[k].header = BlockHeader(input.sections[k])
             /\ IsPrefix(pairs[k].body, input.sections[k].body)
        /\ \A bucket \in DOMAIN schema :
             LET own == SectionsOfBucket(bucket)
             IN  schema[bucket] = [k \in 1..Len(own) |-> own[k][1]]

\* a sequence section, dropped, followed by a section that reached its bucket
C15_Witness ==
    /\ ParseDone
    /\ Len(input.sections) = 2
    /\ Len(pairs) = 2
    /\ pairs[1].header.object_type = "Sequence"
    /\ pairs[2].header.object_type = "Type"
    /\ Len(schema.types) = 1
    /\ schema.types[1].body = pairs[2].body

(***************************************************************************)
(* C16. In a dump whose headers are all well-formed, the body stored for   *)
(* every bucketed section is the whole text of the dump between the        *)
(* boundary that closes its header and the boundary that opens the next    *)
(* header, also when that text has a bare `--` line of its own.            *)
(* Fails: the text is split at every "\n--\n", so the body ends at its     *)
(* first bare `--` line and what follows that line is lost.                *)
(***************************************************************************)
C16_BodyIsWholeTextBetweenHeaders ==
    (ParseDone /\ AllHeadersWellFormed) =>
        \A k \in 1..Len(pairs) :
            (k <= Len(input.sections) /\ pairs[k].header.object_type \in MappedKinds)
                => pairs[k].body \o NL = input.sections[k].body

(***************************************************************************)
(* C17. When the last fragment of the input is a valid header, the parser  *)
(* ends holding that header: from_str does not abort and returns, the held *)
(* header adds no pair and no section to any bucket, and the buckets hold  *)
(* the sections of the earlier fragments.                                  *)
(***************************************************************************)
EndedAwaitingBody == rest = None /\ sh_holder # None

C17_DanglingHeaderIsDropped ==
    EndedAwaitingBody =>
        /\ pc # "panicked"
        /\ pc = "from_str" => ENABLED FromStrReturn
        /\ IsSectionHeader(sec)
        /\ Len(pairs) = Len(input.sections)
        /\ BucketSizes = Len(PairsOfKinds(MappedKinds))
        /\ \A bucket \in DOMAIN schema :
             \A k \in 1..Len(schema[bucket]) :
                \E m \in 1..Len(pairs) : schema[bucket][k] = pairs[m]

\* the dump ended on a header, and the sections before it were written
C17_Witness ==
    /\ EndedAwaitingBody
    /\ pc = "returned"
    /\ result = "Ok"
    /\ Len(pairs) = 2
    /\ files # <<>>

(***************************************************************************)
(* C18. Every file write_to_fs creates or writes, and every directory it   *)
(* creates, lies under tables, functions, tests/functions or types of the  *)
(* root (or is the tests directory above tests/functions); every call is   *)
(* made for a section of the tables, functions, types, constraints or      *)
(* indexes bucket, none for a Comment, Extension or Default section: when  *)
(* only such sections were parsed, the root is left as it was.             *)
(* Names and namespaces are taken to be single path components.            *)
(***************************************************************************)
WrittenTrees == {<<TABLES_DIR>>, <<FUNCTIONS_DIR>>, <<TESTS_DIR, FUNCTIONS_DIR>>, <<TYPES_DIR>>}

InWrittenTree(path) == \E t \in WrittenTrees : IsPrefix(t, path)

AboveWrittenTree(path) == \E t \in WrittenTrees : IsPrefix(path, t)

TableFiles == {TableFile(schema.tables[k]) : k \in 1..Len(schema.tables)}

C19_TableFileIndependentOfEarlierContent ==
    /\ (pc = "returned" /\ result = "Ok") =>
         \A fp \in TableFiles :
            /\ fp \in DOMAIN files
            /\ files[fp] = snapshots[1][fp]
    /\ \A k \in 1..Len(ops) :
         (ops[k].op = "append" /\ ops[k].path \in TableFiles) =>
             \E j \in 1..(k - 1) :
                /\ ops[j].run = ops[k].run
                /\ ops[j].op = "write"
                /\ ops[j].path = ops[k].path

\* the second run found a table file holding the table and a constraint or index
\* of the first run, and ended with the same content
C19_Witness ==
    /\ SucceededTwice
    /\ \E fp \in TableFiles :
         /\ \E j \in 1..Len(ops) :
               ops[j].run = 1 /\ ops[j].op = "append" /\ ops[j].path = fp
         /\ \E j \in 1..Len(ops) :
               ops[j].run = 2 /\ ops[j].op = "append" /\ ops[j].path = fp
         /\ files[fp] = snapshots[1][fp]

=============================================================================
